---- MODULE Spec2Model ----
(***************************************************************************)
(* Sparse Cholesky selection / dispatch and the refinement decorator of    *)
(* internal/ceres/sparse_cholesky.cc:                                      *)
(*   SparseCholesky::Create, SparseCholesky::FactorAndSolve,               *)
(*   RefinedSparseCholesky::{StorageType, Factorize, Solve}.               *)
(*                                                                         *)
(* The concrete backends and the IterativeRefiner are collaborators whose  *)
(* code is outside this file; they are modelled by their contract, with    *)
(* the outcome of each backend call drawn nondeterministically.            *)
(***************************************************************************)
EXTENDS Integers, Sequences, FiniteSets, TLC

VARIABLES
  build,      \* the libraries compiled into this build (preprocessor symbols)
  phase,      \* "start" (no solver yet), "ready", "aborted" (LOG(FATAL)/CHECK)
  solver,     \* the solver object the caller holds
  lhs_,       \* RefinedSparseCholesky::lhs_
  factor,     \* the matrix whose factorization the wrapped backend holds
  solution,   \* the caller's solution buffer
  plain,      \* the same backend, unwrapped, driven by the same calls
  op,         \* the last call the caller made and what it returned
  calls       \* the calls made on decorator, backend and refiner during op

vars == <<build, phase, solver, lhs_, factor, solution, plain, op, calls>>

(***************************************************************************)
(* Bounds of the model.                                                    *)
(***************************************************************************)
MaxRefine == 2      \* largest max_num_refinement_iterations configured
MaxPasses == 1      \* largest iteration bound of a refiner the caller drives
NumMatrices == 2    \* distinct matrices a caller factorizes
NumRhs == 2         \* distinct right-hand sides a caller solves for

Null == 0
Matrices == 1..NumMatrices
RhsVectors == 1..NumRhs

LINEAR_SOLVER_SUCCESS == "LINEAR_SOLVER_SUCCESS"
LINEAR_SOLVER_FAILURE == "LINEAR_SOLVER_FAILURE"
LINEAR_SOLVER_FATAL_ERROR == "LINEAR_SOLVER_FATAL_ERROR"
TerminationTypes ==
  {LINEAR_SOLVER_SUCCESS, LINEAR_SOLVER_FAILURE, LINEAR_SOLVER_FATAL_ERROR}

\* The case labels of the switch in Create; "UNRECOGNIZED" stands for any
\* enumerator value that has no case label and reaches default.
CaseLabels == <<"SUITE_SPARSE", "EIGEN_SPARSE", "CX_SPARSE", "ACCELERATE_SPARSE">>
Libraries == {CaseLabels[i] : i \in 1..Len(CaseLabels)}
LibraryTypes == Libraries \cup {"UNRECOGNIZED"}

Options ==
  [sparse_linear_algebra_library_type : LibraryTypes,
   use_mixed_precision_solves : BOOLEAN,
   use_postordering : BOOLEAN,
   max_num_refinement_iterations : (-1)..MaxRefine]

NoOptions ==
  [sparse_linear_algebra_library_type |-> "none",
   use_mixed_precision_solves |-> FALSE,
   use_postordering |-> FALSE,
   max_num_refinement_iterations |-> 0]

NoBackend == [class |-> "none", ordering |-> "none"]

\* IterativeRefiner(max_num_iterations); NoRefiner: none was constructed.
IterativeRefiner(max_num_iterations) ==
  [constructed |-> TRUE, max_num_iterations |-> max_num_iterations]
NoRefiner == [constructed |-> FALSE, max_num_iterations |-> 0]

NoSolver == [kind |-> "none", backend |-> NoBackend, refiner |-> NoRefiner]

\* The content of a solution buffer: which factorization and right-hand side
\* it was solved from, and how many refinement passes corrected it afterwards.
Unwritten == [factor |-> Null, rhs |-> Null, passes |-> 0]

\* One call made during an operation: the method, the object it is made on,
\* its matrix and right-hand side arguments, the solver handed to it (Refine
\* only) and what it returned.
Ev(call, on, lhs, rhs, ret) ==
  [call |-> call, on |-> on, lhs |-> lhs, rhs |-> rhs, with |-> "none",
   ret |-> ret]

(***************************************************************************)
(* SparseCholesky::Create                                                  *)
(***************************************************************************)
\* The two classes each case of the switch chooses between.
BackendClass(library, mixed) ==
  CASE library = "SUITE_SPARSE" ->
         IF mixed THEN "FloatSuiteSparseCholesky" ELSE "SuiteSparseCholesky"
    [] library = "EIGEN_SPARSE" ->
         IF mixed THEN "FloatEigenSparseCholesky" ELSE "EigenSparseCholesky"
    [] library = "CX_SPARSE" ->
         IF mixed THEN "FloatCXSparseCholesky" ELSE "CXSparseCholesky"
    [] library = "ACCELERATE_SPARSE" ->
         IF mixed THEN "AppleAccelerateCholesky<float>"
                  ELSE "AppleAccelerateCholesky<double>"

\* Mutant: the two orderings exchanged.
OrderingTypeSwapped(use_postordering) ==
  IF use_postordering THEN "NATURAL" ELSE "AMD"

\* const OrderingType ordering_type = options.use_postordering ? AMD : NATURAL;
OrderingType(use_postordering) == IF use_postordering THEN "AMD" ELSE "NATURAL"

\* What the switch leaves behind: the process is dead, or sparse_cholesky holds
\* the backend built (NoBackend: the unique_ptr is still empty).
Fatal == [fatal |-> TRUE, backend |-> NoBackend]
Built(backend) == [fatal |-> FALSE, backend |-> backend]

\* Mutant: a LOG(FATAL) that only logs, so control runs on into what follows.
LogFatalReturns(rest) == rest

\* LOG(FATAL) terminates the process: the statements after it never run.
LogFatal(rest) == Fatal

\* Execution of the switch body from the i-th case label on.  A case whose
\* library is compiled in builds its backend and breaks; one whose library is
\* compiled out consists of LOG(FATAL) alone, followed by the next label.
RECURSIVE RunCases(_, _, _)
RunCases(i, options, compiled) ==
  IF i > Len(CaseLabels)
    THEN LogFatal(Built(NoBackend))                                 \* default:
    ELSE IF CaseLabels[i] \in compiled
           THEN Built([class |-> BackendClass(CaseLabels[i],
                                    options.use_mixed_precision_solves),
                       ordering |-> OrderingType(options.use_postordering)])
           ELSE LogFatal(RunCases(i + 1, options, compiled))

\* switch (options.sparse_linear_algebra_library_type)
SwitchLibrary(options, compiled) ==
  LET type == options.sparse_linear_algebra_library_type
      at == {i \in 1..Len(CaseLabels) : CaseLabels[i] = type}
  IN  IF at = {} THEN RunCases(Len(CaseLabels) + 1, options, compiled)
                 ELSE RunCases(CHOOSE i \in at : TRUE, options, compiled)

\* Mutant: the comparison written >= 0.
WrapIfNotNegative(backend, max_num_refinement_iterations) ==
  IF max_num_refinement_iterations >= 0
    THEN [kind |-> "refined", backend |-> backend,
          refiner |-> IterativeRefiner(max_num_refinement_iterations)]
    ELSE [kind |-> "backend", backend |-> backend, refiner |-> NoRefiner]

\* if (options.max_num_refinement_iterations > 0) { wrap } return sparse_cholesky;
WrapIfRefining(backend, max_num_refinement_iterations) ==
  IF max_num_refinement_iterations > 0
    THEN [kind |-> "refined", backend |-> backend,
          refiner |-> IterativeRefiner(max_num_refinement_iterations)]
    ELSE [kind |-> "backend", backend |-> backend, refiner |-> NoRefiner]

\* The whole of Create: [fatal, solver].
CreateSolver(options, compiled) ==
  LET chosen == SwitchLibrary(options, compiled)
  IN  IF chosen.fatal
        THEN [fatal |-> TRUE, solver |-> NoSolver]
        ELSE [fatal |-> FALSE,
              solver |-> WrapIfRefining(chosen.backend,
                                        options.max_num_refinement_iterations)]

(***************************************************************************)
(* The collaborators, by contract.                                         *)
(***************************************************************************)
\* Backend Factorize: status `out`; on success the backend holds the
\* factorization of `lhs`, otherwise it keeps what it held.
BackendFactorize(held, lhs, out) ==
  [factor |-> IF out = LINEAR_SOLVER_SUCCESS THEN lhs ELSE held, ret |-> out]

\* Backend Solve: status `out`; on success the buffer holds the solution of
\* the held factorization against `rhs`, otherwise it is left as it was.
BackendSolve(held, rhs, buffer, out) ==
  [solution |-> IF out = LINEAR_SOLVER_SUCCESS
                  THEN [factor |-> held, rhs |-> rhs, passes |-> 0]
                  ELSE buffer,
   ret |-> out]

\* Backend StorageType: a fixed property of the backend class.
BackendStorageType(backend) ==
  IF backend.class \in {"SuiteSparseCholesky", "FloatSuiteSparseCholesky"}
    THEN "UPPER_TRIANGULAR" ELSE "LOWER_TRIANGULAR"

\* IterativeRefiner::Refine(lhs, rhs, sparse_cholesky, solution) performing
\* `passes` correction passes in place; no pass leaves the buffer untouched.
\* Each pass solves for a correction with the factorization the backend holds.
Refine(lhs, rhs, buffer, passes) ==
  [buffer EXCEPT !.passes = @ + passes]

\* RefinedSparseCholesky::lhs_ as the constructor leaves it.
InitialLhs == Null

(***************************************************************************)
(* RefinedSparseCholesky and SparseCholesky::FactorAndSolve.               *)
(* An object state is [lhs_, factor, solution]; a call yields the state    *)
(* after it together with ret, the calls it made and whether it aborted.   *)
(* o = [f, s, n]: the status the backend's Factorize and Solve return for  *)
(* these arguments and the number of passes the refiner performs.          *)
(***************************************************************************)
Outcome(st, ret, made, aborted) ==
  [lhs_ |-> st.lhs_, factor |-> st.factor, solution |-> st.solution,
   ret |-> ret, calls |-> made, aborted |-> aborted]

\* Mutant: the check is missing.
CheckLhsMissing(st) == TRUE

\* CHECK(lhs_ != nullptr)
CheckLhs(st) == st.lhs_ # Null

\* Mutant: the decorator answers for itself without asking the backend.
RefinedStorageTypeOwn(backend) == [ret |-> "LOWER_TRIANGULAR", calls |-> <<>>]

\* RefinedSparseCholesky::StorageType
RefinedStorageType(backend) ==
  [ret |-> BackendStorageType(backend),
   calls |-> <<Ev("StorageType", "backend", Null, Null,
                  BackendStorageType(backend))>>]

\* Mutant: the backend is handed the matrix recorded before this call.
RefinedFactorizeStale(st, lhs, o) ==
  LET b == BackendFactorize(st.factor, st.lhs_, o.f)
  IN  Outcome([st EXCEPT !.lhs_ = lhs, !.factor = b.factor], b.ret,
              <<Ev("Factorize", "backend", st.lhs_, Null, b.ret)>>, FALSE)

\* Mutant: the assignment lhs_ = lhs is missing.
RefinedFactorizeForgetsMatrix(st, lhs, o) ==
  LET b == BackendFactorize(st.factor, lhs, o.f)
  IN  Outcome([st EXCEPT !.factor = b.factor], b.ret,
              <<Ev("Factorize", "backend", lhs, Null, b.ret)>>, FALSE)

\* Mutant: the backend's status is dropped and success reported.
RefinedFactorizeReportsSuccess(st, lhs, o) ==
  LET b == BackendFactorize(st.factor, lhs, o.f)
  IN  Outcome([st EXCEPT !.lhs_ = lhs, !.factor = b.factor],
              LINEAR_SOLVER_SUCCESS,
              <<Ev("Factorize", "backend", lhs, Null, b.ret)>>, FALSE)

\* RefinedSparseCholesky::Factorize
RefinedFactorize(st, lhs, o) ==
  LET b == BackendFactorize(st.factor, lhs, o.f)
  IN  Outcome([st EXCEPT !.lhs_ = lhs, !.factor = b.factor], b.ret,
              <<Ev("Factorize", "backend", lhs, Null, b.ret)>>, FALSE)

\* Mutant: the recorded matrix is dropped once it has been refined with.
RefinedSolveForgetsMatrix(st, rhs, o) ==
  IF ~CheckLhs(st)
    THEN Outcome(st, "abort", <<>>, TRUE)
    ELSE LET b == BackendSolve(st.factor, rhs, st.solution, o.s)
             solved == <<Ev("Solve", "backend", Null, rhs, b.ret)>>
         IN  IF b.ret # LINEAR_SOLVER_SUCCESS
               THEN Outcome([st EXCEPT !.solution = b.solution], b.ret,
                            solved, FALSE)
               ELSE Outcome([st EXCEPT !.solution =
                                Refine(st.lhs_, rhs, b.solution, o.n),
                                       !.lhs_ = Null],
                            LINEAR_SOLVER_SUCCESS,
                            Append(solved,
                                   [Ev("Refine", "refiner", st.lhs_, rhs, "void")
                                      EXCEPT !.with = "backend"]),
                            FALSE)

\* Mutant: the early return is missing, so a failed solve is refined too.
RefinedSolveRefinesAnyway(st, rhs, o) ==
  IF ~CheckLhs(st)
    THEN Outcome(st, "abort", <<>>, TRUE)
    ELSE LET b == BackendSolve(st.factor, rhs, st.solution, o.s)
         IN  Outcome([st EXCEPT !.solution =
                         Refine(st.lhs_, rhs, b.solution, o.n)],
                     b.ret,
                     <<Ev("Solve", "backend", Null, rhs, b.ret),
                       [Ev("Refine", "refiner", st.lhs_, rhs, "void")
                          EXCEPT !.with = "backend"]>>,
                     FALSE)

\* Mutant: the Refine call is missing.
RefinedSolveNeverRefines(st, rhs, o) ==
  IF ~CheckLhs(st)
    THEN Outcome(st, "abort", <<>>, TRUE)
    ELSE LET b == BackendSolve(st.factor, rhs, st.solution, o.s)
         IN  Outcome([st EXCEPT !.solution = b.solution], b.ret,
                     <<Ev("Solve", "backend", Null, rhs, b.ret)>>, FALSE)

\* RefinedSparseCholesky::Solve
RefinedSolve(st, rhs, o) ==
  IF ~CheckLhs(st)
    THEN Outcome(st, "abort", <<>>, TRUE)
    ELSE LET b == BackendSolve(st.factor, rhs, st.solution, o.s)
             solved == <<Ev("Solve", "backend", Null, rhs, b.ret)>>
         IN  IF b.ret # LINEAR_SOLVER_SUCCESS
               THEN Outcome([st EXCEPT !.solution = b.solution], b.ret,
                            solved, FALSE)
               ELSE Outcome([st EXCEPT !.solution =
                                Refine(st.lhs_, rhs, b.solution, o.n)],
                            LINEAR_SOLVER_SUCCESS,
                            Append(solved,
                                   [Ev("Refine", "refiner", st.lhs_, rhs, "void")
                                      EXCEPT !.with = "backend"]),
                            FALSE)

\* Virtual dispatch of Factorize on the object the caller holds.
Factorize(kind, st, lhs, o) ==
  IF kind = "refined"
    THEN LET r == RefinedFactorize(st, lhs, o)
         IN  [r EXCEPT !.calls =
                 <<Ev("Factorize", "refined", lhs, Null, r.ret)>> \o r.calls]
    ELSE LET b == BackendFactorize(st.factor, lhs, o.f)
         IN  Outcome([st EXCEPT !.factor = b.factor], b.ret,
                     <<Ev("Factorize", "backend", lhs, Null, b.ret)>>, FALSE)

\* Virtual dispatch of Solve on the object the caller holds.
Solve(kind, st, rhs, o) ==
  IF kind = "refined"
    THEN LET r == RefinedSolve(st, rhs, o)
         IN  [r EXCEPT !.calls =
                 <<Ev("Solve", "refined", Null, rhs, r.ret)>> \o r.calls]
    ELSE LET b == BackendSolve(st.factor, rhs, st.solution, o.s)
         IN  Outcome([st EXCEPT !.solution = b.solution], b.ret,
                     <<Ev("Solve", "backend", Null, rhs, b.ret)>>, FALSE)

\* Mutant: the comparison written != LINEAR_SOLVER_FATAL_ERROR.
FactorAndSolveSolvesUnlessFatal(kind, st, lhs, rhs, o) ==
  LET f == Factorize(kind, st, lhs, o)
  IN  IF f.ret # LINEAR_SOLVER_FATAL_ERROR
        THEN LET s == Solve(kind, f, rhs, o)
             IN  [s EXCEPT !.calls = f.calls \o s.calls]
        ELSE f

\* Mutant: Solve is called whatever Factorize returned.
FactorAndSolveAlwaysSolves(kind, st, lhs, rhs, o) ==
  LET f == Factorize(kind, st, lhs, o)
      s == Solve(kind, f, rhs, o)
  IN  [s EXCEPT !.calls = f.calls \o s.calls]

\* SparseCholesky::FactorAndSolve
FactorAndSolve(kind, st, lhs, rhs, o) ==
  LET f == Factorize(kind, st, lhs, o)
  IN  IF f.ret = LINEAR_SOLVER_SUCCESS
        THEN LET s == Solve(kind, f, rhs, o)
             IN  [s EXCEPT !.calls = f.calls \o s.calls]
        ELSE f

(***************************************************************************)
(* Construction: the factory, and the decorator's constructor.             *)
(***************************************************************************)
Call(name, options, lhs, rhs, ret) ==
  [name |-> name, options |-> options, lhs |-> lhs, rhs |-> rhs, ret |-> ret]

NotCalled == Call("none", NoOptions, Null, Null, "none")

Backends ==
  [class : {BackendClass(l, m) : l \in Libraries, m \in BOOLEAN},
   ordering : {OrderingType(p) : p \in BOOLEAN}]

\* RefinedSparseCholesky::RefinedSparseCholesky(sparse_cholesky, iterative_refiner)
RefinedSparseCholesky(backend, max_num_iterations) ==
  [kind |-> "refined", backend |-> backend,
   refiner |-> IterativeRefiner(max_num_iterations)]

\* Every solver object a caller can hold: what Create returns (in a build
\* that has the requested library), and a decorator constructed directly
\* around a backend and a refiner.
Solvers ==
  {CreateSolver(o, Libraries).solver :
     o \in {x \in Options : ~CreateSolver(x, Libraries).fatal}}
  \cup {RefinedSparseCholesky(b, n) : b \in Backends, n \in 0..MaxRefine}

\* The solvers whose calls are explored.  Nothing a call does after
\* construction reads the backend beyond its StorageType, so one ordering and
\* one precision of each library stand for the others.
HeldSolvers ==
  {s \in Solvers :
     /\ s.refiner.max_num_iterations <= MaxPasses
     /\ s.backend \in {[class |-> BackendClass(l, FALSE),
                        ordering |-> OrderingType(TRUE)] : l \in Libraries}}

Fresh ==
  /\ lhs_ = InitialLhs
  /\ factor = Null
  /\ solution = Unwritten
  /\ plain = [factor |-> Null, solution |-> Unwritten, ret |-> "none"]
  /\ calls = <<>>

\* The process before it has asked for a solver.
InitFactory ==
  /\ build \in SUBSET Libraries
  /\ phase = "start"
  /\ solver = NoSolver
  /\ op = NotCalled
  /\ Fresh

\* A caller holding a newly constructed solver.
Init ==
  /\ build = Libraries
  /\ phase = "ready"
  /\ solver \in HeldSolvers
  /\ op = NotCalled
  /\ Fresh

Create(options) ==
  /\ phase = "start"
  /\ LET r == CreateSolver(options, build)
     IN  /\ phase' = IF r.fatal THEN "aborted" ELSE "ready"
         /\ solver' = r.solver
         /\ op' = Call("Create", options, Null, Null,
                       IF r.fatal THEN "abort" ELSE "returned")
  /\ UNCHANGED <<build, lhs_, factor, solution, plain, calls>>

ConstructRefined(backend, max_num_iterations) ==
  /\ phase = "start"
  /\ \E l \in build, m \in BOOLEAN : backend.class = BackendClass(l, m)
  /\ phase' = "ready"
  /\ solver' = RefinedSparseCholesky(backend, max_num_iterations)
  /\ op' = Call("RefinedSparseCholesky", NoOptions, Null, Null, "returned")
  /\ UNCHANGED <<build, lhs_, factor, solution, plain, calls>>

NextFactory ==
  \/ \E options \in Options : Create(options)
  \/ \E b \in Backends, n \in 0..MaxRefine : ConstructRefined(b, n)

SpecFactory == InitFactory /\ [][NextFactory]_vars

(***************************************************************************)
(* The caller's calls on the solver it holds.                              *)
(***************************************************************************)
\* What the collaborators do in one call: f and s are the statuses the
\* backend's Factorize and Solve return, n the passes the refiner performs.
Oracle(f, s, n) == [f |-> f, s |-> s, n |-> n]

\* A refiner performs at most its bound of passes.
Passes == 0..solver.refiner.max_num_iterations

Here == [lhs_ |-> lhs_, factor |-> factor, solution |-> solution]
PlainHere == [lhs_ |-> Null, factor |-> plain.factor, solution |-> plain.solution]

\* The state after a call returned r on the solver and t on the unwrapped twin.
Returns(name, lhs, rhs, r, t) ==
  /\ phase' = IF r.aborted THEN "aborted" ELSE "ready"
  /\ lhs_' = r.lhs_
  /\ factor' = r.factor
  /\ solution' = r.solution
  /\ plain' = [factor |-> t.factor, solution |-> t.solution, ret |-> t.ret]
  /\ op' = Call(name, NoOptions, lhs, rhs, r.ret)
  /\ calls' = r.calls
  /\ UNCHANGED <<build, solver>>

DoFactorize(lhs, o) ==
  /\ phase = "ready"
  /\ Returns("Factorize", lhs, Null,
             Factorize(solver.kind, Here, lhs, o),
             Factorize("backend", PlainHere, lhs, o))

DoSolve(rhs, o) ==
  /\ phase = "ready"
  /\ Returns("Solve", Null, rhs,
             Solve(solver.kind, Here, rhs, o),
             Solve("backend", PlainHere, rhs, o))

DoFactorAndSolve(lhs, rhs, o) ==
  /\ phase = "ready"
  /\ Returns("FactorAndSolve", lhs, rhs,
             FactorAndSolve(solver.kind, Here, lhs, rhs, o),
             FactorAndSolve("backend", PlainHere, lhs, rhs, o))

\* Virtual dispatch of StorageType on the object the caller holds.
StorageType(kind, backend) ==
  IF kind = "refined"
    THEN LET r == RefinedStorageType(backend)
         IN  [r EXCEPT !.calls =
                 <<Ev("StorageType", "refined", Null, Null, r.ret)>> \o r.calls]
    ELSE [ret |-> BackendStorageType(backend),
          calls |-> <<Ev("StorageType", "backend", Null, Null,
                         BackendStorageType(backend))>>]

DoStorageType ==
  /\ phase = "ready"
  /\ LET r == StorageType(solver.kind, solver.backend)
     IN  /\ op' = Call("StorageType", NoOptions, Null, Null, r.ret)
         /\ calls' = r.calls
  /\ UNCHANGED <<build, phase, solver, lhs_, factor, solution, plain>>

\* The outcomes that can differ: Solve runs only after a successful
\* Factorize, the refiner only after a successful backend Solve.
SolveOutcomes(f) ==
  IF f = LINEAR_SOLVER_SUCCESS THEN TerminationTypes ELSE {LINEAR_SOLVER_FAILURE}
PassesAfter(s) ==
  IF s = LINEAR_SOLVER_SUCCESS THEN Passes ELSE {0}

Next ==
  \/ \E lhs \in Matrices, f \in TerminationTypes :
       DoFactorize(lhs, Oracle(f, LINEAR_SOLVER_FAILURE, 0))
  \/ \E rhs \in RhsVectors, s \in TerminationTypes :
       \E n \in PassesAfter(s) :
         DoSolve(rhs, Oracle(LINEAR_SOLVER_FAILURE, s, n))
  \/ \E lhs \in Matrices, rhs \in RhsVectors, f \in TerminationTypes :
       \E s \in SolveOutcomes(f) : \E n \in PassesAfter(s) :
         DoFactorAndSolve(lhs, rhs, Oracle(f, s, n))
  \/ DoStorageType

Spec == Init /\ [][Next]_vars

(***************************************************************************)
(* Properties.                                                             *)
(***************************************************************************)
\* The positions in calls of the calls of `call` made on `on`.
Positions(call, on) ==
  {i \in 1..Len(calls) : calls[i].call = call /\ calls[i].on = on}

Refined == solver.kind = "refined"

\* No Factorize on this solver has returned success so far: the backend holds
\* a factorization exactly from its first successful Factorize on.
NoSuccessfulFactorize == factor = Null

\* C1: FactorAndSolve calls Factorize on the solver exactly once, first, with
\* its matrix.  If that returned success it calls Solve on the solver exactly
\* once, afterwards, with its rhs, and returns what Solve returned.  Otherwise
\* no Solve (and no refinement) happens at all and it returns what Factorize
\* returned.
C1_FactorAndSolveShortCircuits ==
  op.name = "FactorAndSolve" =>
    LET fs == Positions("Factorize", solver.kind)
        ss == Positions("Solve", solver.kind)
    IN  /\ fs = {1}
        /\ calls[1].lhs = op.lhs
        /\ IF calls[1].ret = LINEAR_SOLVER_SUCCESS
             THEN \E j \in ss : /\ ss = {j}
                                /\ j > 1
                                /\ calls[j].rhs = op.rhs
                                /\ op.ret = calls[j].ret
             ELSE /\ \A i \in 1..Len(calls) :
                       calls[i].call \notin {"Solve", "Refine"}
                  /\ op.ret = calls[1].ret

\* C1 witness: a FactorAndSolve whose Factorize succeeded and whose Solve
\* then failed, on a decorator.
C1_Witness ==
  /\ op.name = "FactorAndSolve"
  /\ Refined
  /\ calls[1].ret = LINEAR_SOLVER_SUCCESS
  /\ op.ret = LINEAR_SOLVER_FAILURE

\* C2 (as claimed): a Solve on a decorator none of whose Factorize calls has
\* returned success aborts, and calls neither the backend's Solve nor the
\* refiner.
C2_SolveBeforeSuccessAborts ==
  (Refined /\ op.name = "Solve" /\ NoSuccessfulFactorize) =>
    /\ op.ret = "abort"
    /\ phase = "aborted"
    /\ Positions("Solve", "backend") = {}
    /\ Positions("Refine", "refiner") = {}

\* C3: whenever the decorator's Solve runs and the backend's Solve returns
\* something other than success, the decorator returns exactly that status
\* and the refiner is not called.
C3_FailedSolveIsNotRefined ==
  Refined =>
    \A i \in Positions("Solve", "refined"), j \in Positions("Solve", "backend") :
      calls[j].ret # LINEAR_SOLVER_SUCCESS =>
        /\ calls[i].ret = calls[j].ret
        /\ op.ret = calls[j].ret
        /\ Positions("Refine", "refiner") = {}

\* C3 witness: a decorator's Solve whose backend Solve reported a fatal error.
C3_Witness ==
  /\ Refined
  /\ op.name = "Solve"
  /\ Positions("Solve", "backend") # {}
  /\ op.ret = LINEAR_SOLVER_FATAL_ERROR

\* C4: whenever the decorator's Solve runs past its check, it calls the
\* backend's Solve next and returns the backend's status.  When that status is
\* success the refiner is called exactly once, right after the backend's
\* Solve, with the recorded matrix, the caller's rhs and the wrapped backend,
\* and nothing else is called.
C4_SuccessfulSolveIsRefinedOnce ==
  Refined =>
    \A i \in Positions("Solve", "refined") :
      calls[i].ret # "abort" =>
        /\ i + 1 \in Positions("Solve", "backend")
        /\ calls[i + 1].rhs = calls[i].rhs
        /\ calls[i].ret = calls[i + 1].ret
        /\ calls[i + 1].ret = LINEAR_SOLVER_SUCCESS =>
             /\ Positions("Refine", "refiner") = {i + 2}
             /\ Len(calls) = i + 2
             /\ calls[i + 2].lhs = lhs_
             /\ calls[i + 2].lhs # Null
             /\ calls[i + 2].rhs = calls[i].rhs
             /\ calls[i + 2].with = "backend"
             /\ op.ret = LINEAR_SOLVER_SUCCESS

\* C4 witness: a successful Solve on a decorator whose refiner corrected the
\* solution.
C4_Witness ==
  /\ Refined
  /\ op.name = "Solve"
  /\ op.ret = LINEAR_SOLVER_SUCCESS
  /\ solution.passes > 0

\* The standard and the reduced-precision class of each library.
Variants ==
  {<<"SUITE_SPARSE", "SuiteSparseCholesky", "FloatSuiteSparseCholesky">>,
   <<"EIGEN_SPARSE", "EigenSparseCholesky", "FloatEigenSparseCholesky">>,
   <<"CX_SPARSE", "CXSparseCholesky", "FloatCXSparseCholesky">>,
   <<"ACCELERATE_SPARSE", "AppleAccelerateCholesky<double>",
     "AppleAccelerateCholesky<float>">>}

Requested == op.options.sparse_linear_algebra_library_type

\* C5: a solver Create returns is a decorator exactly when
\* max_num_refinement_iterations > 0.  The decorator wraps a backend of the
\* requested library and owns a refiner bounded to exactly that many
\* iterations; otherwise the backend is returned as it is and no refiner
\* exists.
C5_WrappedIffRefining ==
  (op.name = "Create" /\ op.ret = "returned") =>
    LET n == op.options.max_num_refinement_iterations
    IN  /\ Refined <=> n > 0
        /\ n > 0 => solver.refiner = [constructed |-> TRUE,
                                      max_num_iterations |-> n]
        /\ ~(n > 0) => /\ solver.kind = "backend"
                       /\ ~solver.refiner.constructed
        /\ \E v \in Variants : /\ v[1] = Requested
                               /\ solver.backend.class \in {v[2], v[3]}

\* C5 witness: Create returned a decorator bounded to two iterations.
C5_Witness ==
  /\ op.name = "Create"
  /\ op.ret = "returned"
  /\ Refined
  /\ op.options.max_num_refinement_iterations = 2
  /\ solver.refiner.max_num_iterations = 2

\* C6: Create asked for a library that is not compiled in, or for an
\* enumerator the switch does not know, aborts: the caller gets no solver and
\* no backend of any library was put in its place, whatever the other options.
C6_UncompiledLibraryAborts ==
  (op.name = "Create" /\ Requested \notin build) =>
    /\ op.ret = "abort"
    /\ phase = "aborted"
    /\ solver = NoSolver

\* C6 witness: a refining, mixed-precision Create for a missing library in a
\* build that has another library listed after it in the switch.
C6_Witness ==
  /\ op.name = "Create"
  /\ Requested = "EIGEN_SPARSE"
  /\ build = {"CX_SPARSE"}
  /\ op.options.use_mixed_precision_solves
  /\ op.options.max_num_refinement_iterations = 2
  /\ phase = "aborted"

\* C7: Create asked for a compiled-in library returns a solver whose one
\* backend is that library's class, the reduced-precision one exactly when
\* use_mixed_precision_solves is set, built with ordering AMD when
\* use_postordering is set and NATURAL otherwise, for every value of
\* max_num_refinement_iterations.
C7_BackendFollowsOptions ==
  (op.name = "Create" /\ Requested \in build) =>
    /\ op.ret = "returned"
    /\ \E v \in Variants :
         /\ v[1] = Requested
         /\ solver.backend.class =
              IF op.options.use_mixed_precision_solves THEN v[3] ELSE v[2]
    /\ solver.backend.ordering =
         IF op.options.use_postordering THEN "AMD" ELSE "NATURAL"

\* C7 witness: a decorator around the reduced-precision CXSparse backend with
\* natural ordering.
C7_Witness ==
  /\ op.name = "Create"
  /\ Requested = "CX_SPARSE"
  /\ op.options.use_mixed_precision_solves
  /\ ~op.options.use_postordering
  /\ op.options.max_num_refinement_iterations = 1
  /\ solver.backend = [class |-> "FloatCXSparseCholesky", ordering |-> "NATURAL"]

\* C8: a decorator whose refiner is bounded to zero iterations has, after any
\* calls that did not abort, returned what the unwrapped backend returned to
\* the same call and left the same solution in the buffer.
C8_ZeroBoundDecoratorIsTransparent ==
  (Refined /\ solver.refiner.max_num_iterations = 0 /\ phase = "ready") =>
    /\ solution = plain.solution
    /\ factor = plain.factor
    /\ op.name \in {"Factorize", "Solve", "FactorAndSolve"} => op.ret = plain.ret

\* C8 witness: a zero-bound decorator after a successful FactorAndSolve of the
\* second matrix.
C8_Witness ==
  /\ Refined
  /\ solver.refiner.max_num_iterations = 0
  /\ op.name = "FactorAndSolve"
  /\ op.ret = LINEAR_SOLVER_SUCCESS
  /\ solution.factor = 2

\* C9: StorageType on a decorator calls the backend's StorageType, returns
\* what that returned and changes nothing of the decorator, whatever state
\* the decorator is in.
C9_StorageTypePassesThrough ==
  [][(op'.name = "StorageType" /\ Refined) =>
       /\ Len(calls') = 2
       /\ calls'[2].call = "StorageType"
       /\ calls'[2].on = "backend"
       /\ op'.ret = calls'[2].ret
       /\ UNCHANGED <<phase, solver, lhs_, factor, solution>>]_vars

\* C9 witness: StorageType asked of a decorator that has factorized and
\* solved, answering for a SuiteSparse backend.
C9_Witness ==
  /\ Refined
  /\ op.name = "StorageType"
  /\ op.ret = "UPPER_TRIANGULAR"
  /\ factor # Null
  /\ solution.factor # Null

\* C10 (as claimed): after a Factorize that did not succeed, on a decorator
\* that has had no successful Factorize, the decorator holds no recorded
\* matrix that a later Solve would accept.
C10_FailedFactorizeLeavesNoMatrix ==
  (Refined /\ op.name = "Factorize" /\ op.ret # LINEAR_SOLVER_SUCCESS
     /\ NoSuccessfulFactorize) =>
    ~CheckLhs(Here)

\* C11 (as claimed): once some Factorize has succeeded, every matrix the
\* decorator hands to the refiner is the matrix of the most recent successful
\* Factorize, the one whose factorization the backend holds.
C11_RefinerGetsFactoredMatrix ==
  (Refined /\ ~NoSuccessfulFactorize) =>
    \A i \in Positions("Refine", "refiner") : calls[i].lhs = factor

\* C12: whenever the decorator's Factorize runs, the next call is the
\* backend's Factorize with the same matrix, it is the only backend Factorize,
\* and the decorator returns its status; a Factorize the caller makes consists
\* of these two calls alone, so neither the backend's Solve nor the refiner
\* is called.
C12_FactorizeDelegatesOnce ==
  Refined =>
    /\ \A i \in Positions("Factorize", "refined") :
         /\ Positions("Factorize", "backend") = {i + 1}
         /\ calls[i + 1].lhs = calls[i].lhs
         /\ calls[i].ret = calls[i + 1].ret
         /\ calls[i].ret # LINEAR_SOLVER_SUCCESS => Len(calls) = i + 1
    /\ op.name = "Factorize" =>
         /\ Len(calls) = 2
         /\ Positions("Factorize", "refined") = {1}
         /\ calls[2].lhs = op.lhs
         /\ op.ret = calls[2].ret
         /\ op.ret \in TerminationTypes

\* C12 witness: a decorator's Factorize of the second matrix that reported a
\* fatal error.
C12_Witness ==
  /\ Refined
  /\ op.name = "Factorize"
  /\ op.lhs = 2
  /\ op.ret = LINEAR_SOLVER_FATAL_ERROR

\* C13: the refiner is never handed a null matrix.  A decorator's Solve that
\* finds the recorded matrix null aborts having called nothing, and one that
\* gets as far as the backend's Solve has a recorded matrix.
C13_RefinerNeverGetsNull ==
  Refined =>
    /\ \A i \in Positions("Refine", "refiner") : calls[i].lhs # Null
    /\ \A i \in Positions("Solve", "refined") :
         IF lhs_ = Null
           THEN /\ calls[i].ret = "abort"
                /\ phase = "aborted"
                /\ Len(calls) = i
                /\ Positions("Solve", "backend") = {}
                /\ Positions("Refine", "refiner") = {}
           ELSE /\ calls[i].ret # "abort"
                /\ Positions("Solve", "backend") = {i + 1}

\* C13 witness: Solve on a decorator that records no matrix has aborted.
C13_Witness ==
  /\ Refined
  /\ op.name = "Solve"
  /\ lhs_ = Null
  /\ op.ret = "abort"
  /\ phase = "aborted"

\* C14: a Solve on a decorator leaves the recorded matrix and the backend's
\* factorization as they were and calls no Factorize.  On a decorator whose
\* recorded matrix is the one last factorized successfully it does not abort,
\* and any refinement it makes is handed that matrix; so a run of Solve calls
\* after a successful Factorize all see the same matrix.
C14_SolveKeepsRecordedMatrix ==
  [][(op'.name = "Solve" /\ Refined) =>
       /\ lhs_' = lhs_
       /\ factor' = factor
       /\ \A i \in 1..Len(calls') : calls'[i].call # "Factorize"
       /\ (lhs_ # Null /\ lhs_ = factor) =>
            /\ op'.ret \in TerminationTypes
            /\ phase' = "ready"
            /\ lhs_' = factor'
            /\ \A i \in 1..Len(calls') :
                 calls'[i].call = "Refine" => calls'[i].lhs = lhs_]_vars

\* C14 witness: a failed Solve on a decorator whose buffer still holds the
\* refined solution of an earlier Solve against the same factorized matrix.
C14_Witness ==
  /\ Refined
  /\ op.name = "Solve"
  /\ op.ret = LINEAR_SOLVER_FAILURE
  /\ lhs_ = 2
  /\ factor = 2
  /\ solution.factor = 2
  /\ solution.passes > 0

\* C15: a FactorAndSolve whose Factorize did not return success leaves the
\* solution buffer as it was on entry and calls no Solve, on a decorator and
\* on an unwrapped backend alike.
C15_FailedFactorizeLeavesBuffer ==
  [][(op'.name = "FactorAndSolve"
        /\ calls'[1].ret # LINEAR_SOLVER_SUCCESS) =>
       /\ solution' = solution
       /\ plain'.solution = plain.solution
       /\ \A i \in 1..Len(calls') : calls'[i].call \notin {"Solve", "Refine"}]_vars

\* C15 witness: a FactorAndSolve whose Factorize failed, with the buffer still
\* holding the refined solution of another matrix.
C15_Witness ==
  /\ op.name = "FactorAndSolve"
  /\ calls[1].ret = LINEAR_SOLVER_FAILURE
  /\ solution.passes > 0
  /\ solution.factor # Null
  /\ solution.factor # op.lhs

\* C16: FactorAndSolve on a decorator never aborts.  The refiner is called in
\* it exactly when the backend's Factorize and the backend's Solve both
\* returned success in that call, and is handed the matrix of that call.
C16_FactorAndSolveNeverAborts ==
  (Refined /\ op.name = "FactorAndSolve") =>
    /\ op.ret \in TerminationTypes
    /\ phase = "ready"
    /\ \A i \in 1..Len(calls) : calls[i].ret # "abort"
    /\ Positions("Refine", "refiner") # {} <=>
         /\ \E i \in Positions("Factorize", "backend") :
              calls[i].ret = LINEAR_SOLVER_SUCCESS
         /\ \E j \in Positions("Solve", "backend") :
              calls[j].ret = LINEAR_SOLVER_SUCCESS
    /\ \A i \in Positions("Refine", "refiner") :
         /\ calls[i].lhs = op.lhs
         /\ calls[i].lhs # Null

\* C16 witness: a FactorAndSolve of the second matrix on a decorator, both of
\* whose backend calls succeeded, refined.
C16_Witness ==
  /\ Refined
  /\ op.name = "FactorAndSolve"
  /\ op.lhs = 2
  /\ op.ret = LINEAR_SOLVER_SUCCESS
  /\ Positions("Refine", "refiner") # {}
  /\ solution.passes > 0

====
